---- MODULE Spec2Model ----
(***************************************************************************)
(* A model of app.py of the BOI filing tool: the row selector              *)
(* (select_rows), the three state transformers (process_florida,           *)
(* process_washington_streamlit, process_wv_streamlit), the combiner page  *)
(* (combiner_page) and the authentication gate of the script.              *)
(*                                                                         *)
(* Text is modelled as a sequence of one-character strings, so that        *)
(* strip / lower / split / int / the regular expressions are computed on   *)
(* characters as the code computes them.  A missing DataFrame cell (NaN,   *)
(* NaT, pd.NA) is the value NA, which is not a text.                       *)
(***************************************************************************)
EXTENDS Integers, Sequences, FiniteSets, TLC

VARIABLES sel, fl, wa, wv, cmb, app

vars == <<sel, fl, wa, wv, cmb, app>>

\* The state of a component no specification at hand exercises.
Idle == [pc |-> "idle"]

(***************************************************************************)
(* Bounds of the model.                                                    *)
(***************************************************************************)
\* longest record sequence handed to select_rows
MaxLen == 3
\* a selection string is made of at most MaxTok tokens of Tok
MaxTok == 3

(***************************************************************************)
(* Characters and the str methods the code calls.                          *)
(***************************************************************************)
Digit == {"0", "1", "2", "3", "4", "5", "6", "7", "8", "9"}

Upper == {"A", "B", "C", "D", "E", "F", "G", "H", "I", "J", "K", "L", "M",
          "N", "O", "P", "Q", "R", "S", "T", "U", "V", "W", "X", "Y", "Z"}

\* str.isspace / the regex class \s, on the characters of the model
IsSpace(c) == c \in {" ", "\t"}

DigitVal(c) ==
  CASE c = "0" -> 0 [] c = "1" -> 1 [] c = "2" -> 2 [] c = "3" -> 3
    [] c = "4" -> 4 [] c = "5" -> 5 [] c = "6" -> 6 [] c = "7" -> 7
    [] c = "8" -> 8 [] c = "9" -> 9

LowerChar(c) ==
  CASE c = "A" -> "a" [] c = "B" -> "b" [] c = "C" -> "c" [] c = "D" -> "d"
    [] c = "E" -> "e" [] c = "F" -> "f" [] c = "G" -> "g" [] c = "H" -> "h"
    [] c = "I" -> "i" [] c = "J" -> "j" [] c = "K" -> "k" [] c = "L" -> "l"
    [] c = "M" -> "m" [] c = "N" -> "n" [] c = "O" -> "o" [] c = "P" -> "p"
    [] c = "Q" -> "q" [] c = "R" -> "r" [] c = "S" -> "s" [] c = "T" -> "t"
    [] c = "U" -> "u" [] c = "V" -> "v" [] c = "W" -> "w" [] c = "X" -> "x"
    [] c = "Y" -> "y" [] c = "Z" -> "z" [] OTHER -> c

UpperChar(c) ==
  CASE c = "a" -> "A" [] c = "b" -> "B" [] c = "c" -> "C" [] c = "d" -> "D"
    [] c = "e" -> "E" [] c = "f" -> "F" [] c = "g" -> "G" [] c = "h" -> "H"
    [] c = "i" -> "I" [] c = "j" -> "J" [] c = "k" -> "K" [] c = "l" -> "L"
    [] c = "m" -> "M" [] c = "n" -> "N" [] c = "o" -> "O" [] c = "p" -> "P"
    [] c = "q" -> "Q" [] c = "r" -> "R" [] c = "s" -> "S" [] c = "t" -> "T"
    [] c = "u" -> "U" [] c = "v" -> "V" [] c = "w" -> "W" [] c = "x" -> "X"
    [] c = "y" -> "Y" [] c = "z" -> "Z" [] OTHER -> c

\* str.lower() and str.upper()
Lower(s) == [i \in 1..Len(s) |-> LowerChar(s[i])]
ToUpper(s) == [i \in 1..Len(s) |-> UpperChar(s[i])]

Min(a, b) == IF a <= b THEN a ELSE b
Max(a, b) == IF a >= b THEN a ELSE b

\* str.strip(): without the leading and trailing whitespace
Strip(s) ==
  IF \A i \in 1..Len(s) : IsSpace(s[i]) THEN <<>>
  ELSE SubSeq(s,
         CHOOSE i \in 1..Len(s) :
           ~IsSpace(s[i]) /\ \A j \in 1..(i - 1) : IsSpace(s[j]),
         CHOOSE i \in 1..Len(s) :
           ~IsSpace(s[i]) /\ \A j \in (i + 1)..Len(s) : IsSpace(s[j]))

\* str.startswith(p)
StartsWith(s, p) == Len(s) >= Len(p) /\ SubSeq(s, 1, Len(p)) = p

\* c in s
Contains(s, c) == \E i \in 1..Len(s) : s[i] = c

\* str.split(c) for a one-character separator: the pieces between the
\* occurrences of c, empty pieces kept
RECURSIVE SplitOn(_, _)
SplitOn(s, c) ==
  IF ~Contains(s, c) THEN <<s>>
  ELSE LET i == CHOOSE k \in 1..Len(s) :
                   s[k] = c /\ \A j \in 1..(k - 1) : s[j] # c
       IN  <<SubSeq(s, 1, i - 1)>> \o SplitOn(SubSeq(s, i + 1, Len(s)), c)

\* str.split() without a separator: the maximal runs of non-whitespace
RECURSIVE SplitWS(_)
SplitWS(s) ==
  LET t == Strip(s)
  IN  IF t = <<>> THEN <<>>
      ELSE IF \A i \in 1..Len(t) : ~IsSpace(t[i]) THEN <<t>>
      ELSE LET i == CHOOSE k \in 1..Len(t) :
                       IsSpace(t[k]) /\ \A j \in 1..(k - 1) : ~IsSpace(t[j])
           IN  <<SubSeq(t, 1, i - 1)>> \o SplitWS(SubSeq(t, i, Len(t)))

\* the value of a run of decimal digits
RECURSIVE DigitsVal(_)
DigitsVal(ds) ==
  IF ds = <<>> THEN 0
  ELSE 10 * DigitsVal(SubSeq(ds, 1, Len(ds) - 1)) + DigitVal(ds[Len(ds)])

AllDigits(s) == s # <<>> /\ \A i \in 1..Len(s) : s[i] \in Digit

\* int(s): surrounding whitespace is ignored, one sign is allowed, the rest
\* must be decimal digits; anything else raises ValueError (ok = FALSE)
PyInt(s) ==
  LET t == Strip(s)
      signed == t # <<>> /\ t[1] \in {"-", "+"}
      body == IF signed THEN Tail(t) ELSE t
  IN  IF AllDigits(body)
        THEN [ok |-> TRUE,
              val |-> IF signed /\ t[1] = "-" THEN 0 - DigitsVal(body)
                                              ELSE DigitsVal(body)]
        ELSE [ok |-> FALSE, val |-> 0]

(***************************************************************************)
(* DataFrame row slicing.                                                  *)
(***************************************************************************)
\* a slice bound as Python resolves it against a sequence of length n
SliceIdx(i, n) == IF i < 0 THEN Max(i + n, 0) ELSE Min(i, n)

\* df.iloc[lo:hi]
ILoc(df, lo, hi) ==
  SubSeq(df, SliceIdx(lo, Len(df)) + 1, SliceIdx(hi, Len(df)))

\* df.head(n) is df.iloc[:n]
Head_(df, n) == ILoc(df, 0, n)

\* df.tail(n) is df.iloc[0:0] for n = 0 and df.iloc[-n:] otherwise
Tail_(df, n) == IF n = 0 THEN <<>> ELSE ILoc(df, 0 - n, Len(df))

kAll   == <<"a", "l", "l">>
kFirst == <<"f", "i", "r", "s", "t">>
kLast  == <<"l", "a", "s", "t">>

(***************************************************************************)
(* select_rows(df, choice).  Every exception is caught by the function's   *)
(* own try blocks, which return df.                                        *)
(***************************************************************************)
SelectHead(df, c) ==
  LET w == SplitWS(c)
  IN  IF Len(w) < 2 THEN df                       \* IndexError
      ELSE IF ~PyInt(w[2]).ok THEN df             \* ValueError
      ELSE Head_(df, PyInt(w[2]).val)

SelectTail(df, c) ==
  LET w == SplitWS(c)
  IN  IF Len(w) < 2 THEN df
      ELSE IF ~PyInt(w[2]).ok THEN df
      ELSE Tail_(df, PyInt(w[2]).val)

\* select_rows with the range taken by a slice that forgets the range is
\* 1-based
select_rows_ZeroBased(df, choice) ==
  IF choice = <<>> THEN df
  ELSE LET c == Lower(Strip(choice))
           p == SplitOn(c, "-")
       IN  IF c = kAll THEN df
           ELSE IF StartsWith(c, kFirst) THEN SelectHead(df, c)
           ELSE IF StartsWith(c, kLast) THEN SelectTail(df, c)
           ELSE IF Len(p) = 2 /\ PyInt(p[1]).ok /\ PyInt(p[2]).ok
             THEN ILoc(df, PyInt(p[1]).val, PyInt(p[2]).val)
           ELSE df

\* the range with its start clamped up to the first record and everything
\* returned when the start lies behind the end
SelectRangeClamped(df, c) ==
  LET p == SplitOn(c, "-")
      lo == Max(PyInt(p[1]).val, 1)
      hi == Min(PyInt(p[2]).val, Len(df))
  IN  IF Len(p) # 2 THEN df
      ELSE IF ~PyInt(p[1]).ok \/ ~PyInt(p[2]).ok THEN df
      ELSE IF lo > hi THEN df
      ELSE SubSeq(df, lo, hi)

SelectRange(df, c) ==
  LET p == SplitOn(c, "-")
  IN  IF Len(p) # 2 THEN df                       \* unpacking: ValueError
      ELSE IF ~PyInt(p[1]).ok \/ ~PyInt(p[2]).ok THEN df
      ELSE ILoc(df, PyInt(p[1]).val - 1, PyInt(p[2]).val)

select_rows(df, choice) ==
  IF choice = <<>> THEN df
  ELSE LET c == Lower(Strip(choice))
       IN  IF c = kAll THEN df
           ELSE IF StartsWith(c, kFirst) THEN SelectHead(df, c)
           ELSE IF StartsWith(c, kLast) THEN SelectTail(df, c)
           ELSE IF Contains(c, "-") THEN SelectRange(df, c)
           ELSE df

(***************************************************************************)
(* The selector on its own: a record sequence and a selection string are   *)
(* drawn, then select_rows is applied.                                     *)
(***************************************************************************)
\* the record sequences: records are told apart by their position
Frames == {[i \in 1..n |-> i] : n \in 0..MaxLen}

Tok == { kFirst, <<"F", "i", "r", "s", "t">>, kLast, <<"A", "L", "L">>,
         <<" ">>, <<"-">>, <<"0">>, <<"1">>, <<"2">>, <<"3">>, <<"x">> }

RECURSIVE TokStrings(_)
TokStrings(k) ==
  IF k = 0 THEN {<<>>}
  ELSE LET P == TokStrings(k - 1) IN P \cup {p \o t : p \in P, t \in Tok}

\* selection strings longer than MaxTok tokens: malformed and range forms
ExtraChoices ==
  { kFirst \o <<" ", "-", "2">>,
    kFirst \o <<"l", "y", " ", "3">>,
    kFirst \o <<" ", "2", " ", "e", "x", "t", "r", "a">>,
    <<"-", "5">>,
    <<"1", "-", "2", "-", "3">>,
    <<"a", "b", "c">>,
    <<"5", "-", "3">>,
    <<" ", "L", "A", "S", "T", " ", " ", "2", " ">>,
    <<" ", "1", " ", "-", " ", "2", " ">> }

Choices == TokStrings(MaxTok) \cup ExtraChoices

InitSel ==
  /\ sel \in [df : Frames, choice : Choices, out : {<<>>}, pc : {"call"}]
  /\ fl = Idle /\ wa = Idle /\ wv = Idle /\ cmb = Idle
  /\ app = Idle

SelectRows ==
  /\ sel.pc = "call"
  /\ sel' = [sel EXCEPT !.out = select_rows(sel.df, sel.choice),
                        !.pc = "done"]
  /\ UNCHANGED <<fl, wa, wv, cmb, app>>

NextSel == SelectRows

SpecSel == InitSel /\ [][NextSel]_vars

(***************************************************************************)
(* Properties of the selector.                                             *)
(***************************************************************************)
\* largest number the properties quantify over
MaxNum == 34

\* n in decimal
RECURSIVE Dec(_)
Dec(n) ==
  LET d == <<"0", "1", "2", "3", "4", "5", "6", "7", "8", "9">>[(n % 10) + 1]
  IN  IF n < 10 THEN <<d>> ELSE Dec(n \div 10) \o <<d>>

\* c is the range expression "a-b"
IsRange(c, a, b) == c = Dec(a) \o <<"-">> \o Dec(b)

\* the numbers whose numeral, followed by "-", begins c
RangeStarts(c) ==
  IF c = <<>> \/ c[1] \notin Digit \/ ~Contains(c, "-") THEN {}
  ELSE {a \in 0..MaxNum : StartsWith(c, Dec(a) \o <<"-">>)}

\* the selection string as the grammar reads it: trimmed, in lower case
Norm(choice) == Lower(Strip(choice))

\* C1: on the well-formed expressions select_rows agrees with the reference
\* selector: "ALL" and the empty string give S, "first N" the first
\* min(N, len S) records, "last N" the last min(N, len S) records, and "A-B"
\* with 1 <= A <= B <= len S exactly the records A..B.
C1_WellFormed ==
  sel.pc = "done" =>
    LET S == sel.df
        n == Len(sel.df)
        c == Norm(sel.choice)
    IN  /\ c \in {<<>>, kAll} => sel.out = S
        /\ StartsWith(c, kFirst \o <<" ">>) =>
             \A k \in 0..MaxNum :
               c = kFirst \o <<" ">> \o Dec(k)
                 => sel.out = SubSeq(S, 1, Min(k, n))
        /\ StartsWith(c, kLast \o <<" ">>) =>
             \A k \in 0..MaxNum :
               c = kLast \o <<" ">> \o Dec(k)
                 => sel.out = SubSeq(S, n - Min(k, n) + 1, n)
        /\ \A a \in RangeStarts(c) \cap 1..n : \A b \in a..n :
             IsRange(c, a, b) => sel.out = SubSeq(S, a, b)

\* a proper range of a three-record sequence has been selected
C1_Witness ==
  /\ sel.pc = "done"
  /\ sel.df = <<1, 2, 3>>
  /\ sel.choice = <<"2", "-", "3">>
  /\ sel.out = <<2, 3>>

\* keyword, whitespace, digits
IsKeywordForm(c, kw) ==
  /\ StartsWith(c, kw)
  /\ Len(c) > Len(kw)
  /\ IsSpace(c[Len(kw) + 1])
  /\ AllDigits(Strip(SubSeq(c, Len(kw) + 1, Len(c))))

\* integer, "-", integer
IsRangeForm(c) ==
  \E i \in 1..Len(c) :
    /\ c[i] = "-"
    /\ AllDigits(Strip(SubSeq(c, 1, i - 1)))
    /\ AllDigits(Strip(SubSeq(c, i + 1, Len(c))))

\* the grammar forms: ALL, empty, "first N" / "last N" with a non-negative
\* integer N, "A-B" with integers A and B
IsGrammarForm(choice) ==
  LET c == Norm(choice)
  IN  \/ c \in {<<>>, kAll}
      \/ IsKeywordForm(c, kFirst)
      \/ IsKeywordForm(c, kLast)
      \/ IsRangeForm(c)

\* C2: every selection string that is not one of the grammar forms returns
\* the entire sequence unchanged ("first -2", "firstly 3", "first 2 extra",
\* ... are such strings).
C2_FallbackAll ==
  (sel.pc = "done" /\ ~IsGrammarForm(sel.choice)) => sel.out = sel.df

\* C3 as claimed: a range "A-B" clamps A up to 1 and B down to len S, and gives
\* all of S when the clamped A exceeds the clamped B.
C3_ClampOrAll ==
  sel.pc = "done" =>
    \A a \in RangeStarts(Norm(sel.choice)) :
      \A b \in 0..MaxNum :
       IsRange(Norm(sel.choice), a, b) =>
        LET lo == Max(a, 1)
            hi == Min(b, Len(sel.df))
        IN  sel.out = IF lo > hi THEN sel.df ELSE SubSeq(sel.df, lo, hi)

\* C3 as the code has it: "A-B" gives the records A..min(B, len S), which is
\* no record at all when A > min(B, len S); A is not clamped, and A = 0 makes
\* the slice start at the last record.
C3_RangeSlice ==
  sel.pc = "done" =>
    \A a \in RangeStarts(Norm(sel.choice)) :
      \A b \in 0..MaxNum :
       IsRange(Norm(sel.choice), a, b) =>
        LET n == Len(sel.df)
            lo == IF a = 0 THEN Max(n, 1) ELSE a
        IN  sel.out = SubSeq(sel.df, lo, Min(b, n))

\* a range whose start lies behind its end has given no record
C3_Witness ==
  /\ sel.pc = "done"
  /\ sel.df = <<1, 2, 3>>
  /\ sel.choice = <<"3", "-", "1">>
  /\ sel.out = <<>>

(***************************************************************************)
(* DataFrame cells.  A cell is a text or NA (NaN, NaT, pd.NA): a           *)
(* one-element sequence whose element is no character.                     *)
(***************************************************************************)
NA == <<"<NA>">>

\* the text of the three letters n, a, n: what astype(str) makes of NaN
kNan == <<"n", "a", "n">>

\* df.replace(r"^\s*$", pd.NA, regex=True) on one cell
BlankToNA(cell) == IF cell # NA /\ Strip(cell) = <<>> THEN NA ELSE cell

\* df.dropna(how="any") after the replace: the rows without a blank cell
DropBlank(rows) ==
  SelectSeq(rows, LAMBDA r :
    \A col \in DOMAIN r.cells : BlankToNA(r.cells[col]) # NA)

(***************************************************************************)
(* Dates: "%m/%d/%Y" as strptime reads it.  The dates of the model lie     *)
(* within the range of a nanosecond Timestamp.                             *)
(***************************************************************************)
IsLeap(y) == (y % 4 = 0 /\ y % 100 # 0) \/ y % 400 = 0

DaysIn(m, y) ==
  IF m = 2 THEN (IF IsLeap(y) THEN 29 ELSE 28)
  ELSE IF m \in {4, 6, 9, 11} THEN 30 ELSE 31

\* the date as [ok, y, m, d]; ok = FALSE is NaT (errors="coerce") or the
\* ValueError of a call that does not coerce
NaT == [ok |-> FALSE, y |-> 0, m |-> 0, d |-> 0]

ParseMDY(s) ==
  LET p == SplitOn(s, "/")
      dd == IF Len(p[2]) = 2 /\ p[2][1] = " " THEN Tail(p[2]) ELSE p[2]
  IN  IF s = NA \/ Len(p) # 3 THEN NaT
      ELSE IF ~(AllDigits(p[1]) /\ Len(p[1]) <= 2 /\ DigitsVal(p[1]) \in 1..12)
        THEN NaT
      ELSE IF ~(AllDigits(dd) /\ Len(p[2]) <= 2 /\ DigitsVal(dd) \in 1..31)
        THEN NaT
      ELSE IF ~(AllDigits(p[3]) /\ Len(p[3]) = 4 /\ DigitsVal(p[3]) >= 1)
        THEN NaT
      ELSE IF DigitsVal(dd) > DaysIn(DigitsVal(p[1]), DigitsVal(p[3]))
        THEN NaT
      ELSE [ok |-> TRUE, y |-> DigitsVal(p[3]), m |-> DigitsVal(p[1]),
            d |-> DigitsVal(dd)]

\* two digits of a number below 100, four of a number below 10000
Pad2(n) == <<Dec(n \div 10)[1], Dec(n % 10)[1]>>
Pad4(n) == Pad2(n \div 100) \o Pad2(n % 100)

\* strftime("%m/%d/%Y")
FormatMDY(t) == Pad2(t.m) \o <<"/">> \o Pad2(t.d) \o <<"/">> \o Pad4(t.y)

(***************************************************************************)
(* process_florida(file_bytes, exact_date_str, mailing_only).  The file    *)
(* is the sequence of its lines (text.splitlines()); the NUL character is  *)
(* written "NUL".                                                          *)
(***************************************************************************)
Nul == "NUL"

\* raw.replace("\x00", " ")
NulToSpace(s) == [i \in 1..Len(s) |-> IF s[i] = Nul THEN " " ELSE s[i]]

\* str.rstrip(",")
RECURSIVE RStripComma(_)
RStripComma(s) ==
  IF s # <<>> /\ s[Len(s)] = "," THEN RStripComma(SubSeq(s, 1, Len(s) - 1))
  ELSE s

\* the length of the run of whitespace, and of tabs, that begins at i
RECURSIVE SpaceRun(_, _)
SpaceRun(s, i) ==
  IF i <= Len(s) /\ IsSpace(s[i]) THEN 1 + SpaceRun(s, i + 1) ELSE 0

\* re.split(r"\s{3,}|\t+", s) scans s from the left; at a run of whitespace
\* it takes the whole run when the run has three characters or more, and
\* otherwise the tabs of the run.  So a character belongs to a separator
\* when it is whitespace within a run of at least three, or a tab.
InSeparator(s, i) ==
  /\ IsSpace(s[i])
  /\ \/ s[i] = "\t"
     \/ \E a \in (i - 2)..i :
          a >= 1 /\ a + 2 <= Len(s) /\ \A j \in a..(a + 2) : IsSpace(s[j])

\* the non-empty pieces between the separators seps, from the k-th
\* character on
RECURSIVE PiecesFrom(_, _, _)
PiecesFrom(s, seps, k) ==
  IF \A i \in k..Len(s) : i \in seps THEN <<>>
  ELSE LET b == CHOOSE i \in k..Len(s) :
                  i \notin seps /\ \A j \in k..(i - 1) : j \in seps
           e == CHOOSE i \in b..Len(s) :
                  /\ i = Len(s) \/ (i + 1) \in seps
                  /\ \A j \in b..i : j \notin seps
       IN  <<SubSeq(s, b, e)>> \o PiecesFrom(s, seps, e + 1)

\* [p for p in re.split(...) if p.strip()]: the empty pieces of the split
\* are dropped with the blank ones
split_parts(line) ==
  SelectSeq(PiecesFrom(line, {i \in 1..Len(line) : InSeparator(line, i)}, 1),
            LAMBDA p : Strip(p) # <<>>)

\* re.match(r"^[A-Z]\d{11}", s)
MatchesEntity(s) ==
  Len(s) >= 12 /\ s[1] \in Upper /\ \A i \in 2..12 : s[i] \in Digit

\* <<entity id, business name>>
parse_entity_and_name(first_part) ==
  LET t == Strip(first_part)
  IN  IF ~MatchesEntity(t) THEN <<<<>>, <<>>>>
      ELSE <<Strip(SubSeq(t, 1, 12)), Strip(SubSeq(t, 13, Len(t)))>>

\* re.search(r"(\d{k})", s): the first run of k digits, "" without one
DigitsAt(s, i, k) ==
  i + k - 1 <= Len(s) /\ \A j \in i..(i + k - 1) : s[j] \in Digit

FirstDigits(s, k) ==
  LET at == {i \in 1..Len(s) : DigitsAt(s, i, k)}
  IN  IF at = {} THEN <<>>
      ELSE LET i == CHOOSE a \in at : \A b \in at : a <= b
           IN  SubSeq(s, i, i + k - 1)

\* <<street, city, zip>> of the principal address
extract_principal(parts) ==
  IF Len(parts) < 5 THEN <<<<>>, <<>>, <<>>>>
  ELSE <<Strip(parts[3]), RStripComma(Strip(parts[4])),
         FirstDigits(parts[5], 5)>>

\* re.search(r"([A-Z]{2})\s*(\d{5})", s) matches at i
StateZipAt(s, i) ==
  /\ i + 1 <= Len(s)
  /\ s[i] \in Upper /\ s[i + 1] \in Upper
  /\ DigitsAt(s, i + 2 + SpaceRun(s, i + 2), 5)

\* <<state, zip>> of the first match, <<"", "">> without one
StateZip(s) ==
  LET at == {i \in 1..Len(s) : StateZipAt(s, i)}
  IN  IF at = {} THEN <<<<>>, <<>>>>
      ELSE LET i == CHOOSE a \in at : \A b \in at : a <= b
               z == i + 2 + SpaceRun(s, i + 2)
           IN  <<SubSeq(s, i, i + 1), SubSeq(s, z, z + 4)>>

\* the mailing state and ZIP read from the field before the one the code reads
extract_mailing_FieldSix(parts) ==
  IF Len(parts) < 8 THEN <<<<>>, <<>>, <<>>, <<>>>>
  ELSE <<Strip(parts[5]), RStripComma(Strip(parts[6])),
         StateZip(Strip(parts[7]))[1], StateZip(Strip(parts[7]))[2]>>

\* <<street, city, state, zip>> of the mailing address
extract_mailing(parts) ==
  IF Len(parts) < 8 THEN <<<<>>, <<>>, <<>>, <<>>>>
  ELSE <<Strip(parts[6]), RStripComma(Strip(parts[7])),
         StateZip(Strip(parts[8]))[1], StateZip(Strip(parts[8]))[2]>>

\* the first run of eight digits in parts[8:], as MM/DD/YYYY
RECURSIVE FilingDateFrom(_, _)
FilingDateFrom(parts, k) ==
  IF k > Len(parts) THEN <<>>
  ELSE LET m == FirstDigits(parts[k], 8)
       IN  IF m # <<>>
             THEN SubSeq(m, 1, 2) \o <<"/">> \o SubSeq(m, 3, 4) \o <<"/">>
                    \o SubSeq(m, 5, 8)
             ELSE FilingDateFrom(parts, k + 1)

extract_filing_date(parts) == FilingDateFrom(parts, 9)

FLCols == {"Entity ID", "Business Name", "Filing Date", "Principal Street",
           "Principal City", "Principal ZIP", "Mailing Street",
           "Mailing City", "Mailing State", "Mailing ZIP"}

StdCols == {"Name", "Address", "City", "State", "Zipcode", "Filing Date",
            "Document Number"}

\* the body of the loop over the lines: the row a line appends, if any
FLRowsOfLine(raw) ==
  LET line == NulToSpace(raw)
      parts == split_parts(line)
      en == parse_entity_and_name(parts[1])
      pr == extract_principal(parts)
      ml == extract_mailing(parts)
  IN  IF Strip(line) = <<>> THEN <<>>
      ELSE IF ~MatchesEntity(line) THEN <<>>
      ELSE IF Len(parts) < 8 THEN <<>>
      ELSE IF en[1] = <<>> THEN <<>>
      ELSE << ("Entity ID" :> en[1]) @@ ("Business Name" :> en[2])
              @@ ("Filing Date" :> extract_filing_date(parts))
              @@ ("Principal Street" :> pr[1]) @@ ("Principal City" :> pr[2])
              @@ ("Principal ZIP" :> pr[3])
              @@ ("Mailing Street" :> ml[1]) @@ ("Mailing City" :> ml[2])
              @@ ("Mailing State" :> ml[3]) @@ ("Mailing ZIP" :> ml[4]) >>

RECURSIVE FLRows(_)
FLRows(lines) ==
  IF lines = <<>> THEN <<>>
  ELSE FLRows(SubSeq(lines, 1, Len(lines) - 1))
         \o FLRowsOfLine(lines[Len(lines)])

\* pd.DataFrame(rows, columns=...): the rows under the labels 0, 1, ...
FLFrame(lines) ==
  LET rows == FLRows(lines)
  IN  [i \in 1..Len(rows) |-> [idx |-> i - 1, cells |-> rows[i]]]

\* df[df["Filing Date Parsed"] == exact_date]; a filter that is empty or
\* does not parse filters nothing
FLFilter(df, exact_date_str) ==
  IF exact_date_str = <<>> \/ ~ParseMDY(exact_date_str).ok THEN df
  ELSE SelectSeq(df, LAMBDA r :
         /\ ParseMDY(r.cells["Filing Date"]).ok
         /\ ParseMDY(r.cells["Filing Date"]) = ParseMDY(exact_date_str))

\* the standard columns of a row in mailing-only mode
FLMailing(r) ==
  [idx |-> r.idx,
   cells |-> ("Name" :> r.cells["Business Name"])
             @@ ("Address" :> r.cells["Mailing Street"])
             @@ ("City" :> r.cells["Mailing City"])
             @@ ("State" :> r.cells["Mailing State"])
             @@ ("Zipcode" :> r.cells["Mailing ZIP"])
             @@ ("Filing Date" :> r.cells["Filing Date"])
             @@ ("Document Number" :> r.cells["Entity ID"])]

\* lines 339-381, on the frame of the parsed rows
FLFinish(frame, exact_date_str, mailing_only) ==
  LET df == FLFilter(frame, exact_date_str)
  IN  DropBlank(IF mailing_only
                  THEN [i \in 1..Len(df) |-> FLMailing(df[i])]
                  ELSE df)

process_florida(lines, exact_date_str, mailing_only) ==
  FLFinish(FLFrame(lines), exact_date_str, mailing_only)

(***************************************************************************)
(* The Florida files of the model.                                         *)
(***************************************************************************)
\* most lines of a file
MaxFLLines == 2

kEntityName == <<"A", "1", "2", "3", "4", "5", "6", "7", "8", "9", "0",
    "1", "S", "o", "m", "e", "C", "o">>
kEntityOnly == <<"A", "1", "2", "3", "4", "5", "6", "7", "8", "9", "0", "1">>
kStreetP == <<"1", "2", "3", " ", "M", "a", "i", "n", " ", "S", "t">>
kCityP == <<"T", "a", "m", "p", "a", ",">>
kZipP == <<"3", "3", "6", "0", "1">>
kStreetM == <<"4", "5", "6", " ", "O", "a", "k", " ", "A", "v", "e">>
kCityM == <<"M", "i", "a", "m", "i", ",">>
kStateZip == <<"F", "L", " ", "3", "3", "1", "0", "1">>
kStateZipPlus4 == <<"F", "L", "3", "3", "1", "0", "1", "-", "1", "2", "3",
    "4">>
kExtraDate == <<"e", "x", "t", "r", "a", " ", "0", "8", "1", "5", "2", "0",
    "2", "4">>
kOtherDate == <<"0", "1", "0", "1", "2", "0", "2", "0">>
kNoDate == <<"1", "3", "4", "5", "2", "0", "2", "4">>
kStatus == <<"A", "F", "L", "A", "L">>
kSep3 == <<" ", " ", " ">>
kDate0815 == <<"0", "8", "/", "1", "5", "/", "2", "0", "2", "4">>
kDate815 == <<"8", "/", "1", "5", "/", "2", "0", "2", "4">>
kDate0101 == <<"0", "1", "/", "0", "1", "/", "2", "0", "2", "0">>
kSoon == <<"s", "o", "o", "n">>

RECURSIVE Join(_, _)
Join(fields, sep) ==
  IF Len(fields) = 0 THEN <<>>
  ELSE IF Len(fields) = 1 THEN fields[1]
  ELSE fields[1] \o sep \o Join(Tail(fields), sep)

\* a line: the entity field, the fields between it and the principal
\* street, the two address blocks with the given mailing state/ZIP field,
\* and the trailing fields
FLLine(entity, between, statezip, trailing, sep) ==
  Join(<<entity>> \o between
         \o <<kStreetP, kCityP, kZipP, kStreetM, kCityM, statezip>>
         \o trailing, sep)

\* the line of the specification's example: eight fields, three spaces apart
ExampleLine == FLLine(kEntityName, <<>>, kStateZip, <<kExtraDate>>, kSep3)

\* the same line with a field between the entity field and the street
ExampleLineNine ==
  FLLine(kEntityName, <<kStatus>>, kStateZip, <<kExtraDate>>, kSep3)

FLLines ==
  { ExampleLine,
    ExampleLineNine,
    FLLine(kEntityOnly, <<kStatus>>, kStateZip, <<kExtraDate>>, kSep3),
    FLLine(kEntityName, <<>>, kStateZip, <<>>, kSep3),
    FLLine(kEntityName, <<kStatus>>, kStateZip, <<kExtraDate>>, <<"\t">>),
    FLLine(kEntityName, <<kStatus>>, kStateZip, <<kExtraDate>>,
           <<Nul, Nul, Nul>>),
    FLLine(kEntityName, <<kStatus>>, kStateZipPlus4,
           <<kSoon, kOtherDate, kExtraDate>>, kSep3),
    FLLine(kEntityName, <<kStatus>>, kStateZip, <<kNoDate>>, kSep3),
    FLLine(Lower(kEntityName), <<kStatus>>, kStateZip, <<kExtraDate>>, kSep3),
    <<" ", " ">> }

FLFiles == UNION {[1..n -> FLLines] : n \in 0..MaxFLLines}

FLFilters == {<<>>, kDate815, kDate0101, kSoon}

InitFL ==
  /\ fl \in [lines : FLFiles, exact : FLFilters, mailing_only : BOOLEAN,
             rows : {<<>>}, out : {<<>>}, pc : {"call"}]
  /\ sel = Idle /\ wa = Idle /\ wv = Idle /\ cmb = Idle
  /\ app = Idle

\* rows is the frame as parsed (line 333), out the frame returned
ProcessFlorida ==
  /\ fl.pc = "call"
  /\ LET frame == FLFrame(fl.lines)
     IN  fl' = [fl EXCEPT
                  !.rows = frame,
                  !.out = FLFinish(frame, fl.exact, fl.mailing_only),
                  !.pc = "done"]
  /\ UNCHANGED <<sel, wa, wv, cmb, app>>

NextFL == ProcessFlorida

SpecFL == InitFL /\ [][NextFL]_vars

(***************************************************************************)
(* Properties of the Florida parser.                                       *)
(***************************************************************************)
kZipM == <<"3", "3", "1", "0", "1">>

\* C4 as claimed: the example line parses into a record with Entity ID
\* A12345678901, filing date 08/15/2024 and mailing ZIP 33101.
C4_ExampleAsClaimed ==
  (fl.pc = "done" /\ fl.lines = <<ExampleLine>>) =>
    /\ Len(fl.rows) = 1
    /\ fl.rows[1].cells["Entity ID"] = kEntityOnly
    /\ fl.rows[1].cells["Filing Date"] = kDate0815
    /\ fl.rows[1].cells["Mailing ZIP"] = kZipM

\* s holds two capitals, whitespace and five digits that read state and zip
ReadsStateZip(s, state, zip) ==
  \E i \in 1..Len(s) : \E z \in (i + 2)..Len(s) :
    /\ SubSeq(s, i, i + 1) = state
    /\ state[1] \in Upper /\ state[2] \in Upper
    /\ \A j \in (i + 2)..(z - 1) : IsSpace(s[j])
    /\ DigitsAt(s, z, 5)
    /\ SubSeq(s, z, z + 4) = zip

\* s holds a run of eight digits
HasDate(s) == \E i \in 1..Len(s) : DigitsAt(s, i, 8)

\* date is MM/DD/YYYY of the first run of eight digits of s
ReadsDate(s, date) ==
  \E i \in 1..Len(s) :
    /\ DigitsAt(s, i, 8)
    /\ \A j \in 1..(i - 1) : ~DigitsAt(s, j, 8)
    /\ date = SubSeq(s, i, i + 1) \o <<"/">> \o SubSeq(s, i + 2, i + 3)
                \o <<"/">> \o SubSeq(s, i + 4, i + 7)

\* the row r follows the rule on the fields parts of a line: state and ZIP
\* from field index 7, the filing date from the first eight-digit run of the
\* fields at index 8 and beyond
FollowsFieldRule(r, parts) ==
  /\ Len(parts) >= 8
  /\ r["Entity ID"] = SubSeq(parts[1], 1, 12)
  /\ \/ ReadsStateZip(parts[8], r["Mailing State"], r["Mailing ZIP"])
     \/ r["Mailing State"] = <<>> /\ r["Mailing ZIP"] = <<>>
  /\ IF \A k \in 9..Len(parts) : ~HasDate(parts[k])
       THEN r["Filing Date"] = <<>>
       ELSE \E k \in 9..Len(parts) :
              /\ \A j \in 9..(k - 1) : ~HasDate(parts[j])
              /\ ReadsDate(parts[k], r["Filing Date"])

\* C4 as the code has it: the example line has eight fields, so its field 7
\* is "extra 08152024" and no field lies at index 8: it parses into a row
\* with Entity ID A12345678901 and an empty mailing state, mailing ZIP and
\* filing date, which is dropped from the output.  The line with one more
\* field after the entity field gives 08/15/2024 and 33101.  Every parsed
\* row follows the rule on the fields of a line of the file.
C4_FieldRule ==
  fl.pc = "done" =>
    /\ fl.lines = <<ExampleLine>> =>
         /\ Len(fl.rows) = 1
         /\ fl.rows[1].cells["Entity ID"] = kEntityOnly
         /\ fl.rows[1].cells["Filing Date"] = <<>>
         /\ fl.rows[1].cells["Mailing State"] = <<>>
         /\ fl.rows[1].cells["Mailing ZIP"] = <<>>
         /\ fl.out = <<>>
    /\ fl.lines = <<ExampleLineNine>> =>
         /\ Len(fl.rows) = 1
         /\ fl.rows[1].cells["Entity ID"] = kEntityOnly
         /\ fl.rows[1].cells["Filing Date"] = kDate0815
         /\ fl.rows[1].cells["Mailing ZIP"] = kZipM
    /\ \A n \in 1..Len(fl.rows) : \E i \in 1..Len(fl.lines) :
         FollowsFieldRule(fl.rows[n].cells,
                          split_parts(NulToSpace(fl.lines[i])))

\* the example line has been parsed, and dropped
C4_Witness ==
  /\ fl.pc = "done"
  /\ fl.lines = <<ExampleLine>>
  /\ Len(fl.rows) = 1
  /\ fl.out = <<>>

(***************************************************************************)
(* process_washington_streamlit(file, added_date).  The file is the frame  *)
(* pd.read_csv makes of it: a sequence of rows, the row at position i      *)
(* under the label i - 1, each cell a text or NA (read_csv reads an empty  *)
(* field as NaN).                                                          *)
(***************************************************************************)
kActive == <<"A", "c", "t", "i", "v", "e">>
kLLC == <<"W", "A", " ", "L", "I", "M", "I", "T", "E", "D", " ", "L", "I",
    "A", "B", "I", "L", "I", "T", "Y", " ", "C", "O", "M", "P", "A", "N",
    "Y">>

\* Series.astype(str) on one cell.  With strings held as objects (pandas
\* before 3.0) NaN becomes the text "nan"; with the str dtype (pandas 3.0)
\* NaN stays missing.  The repository pins no pandas version: nan_text
\* tells which of the two the installed pandas does.
AsStr(cell, nan_text) ==
  IF cell = NA THEN (IF nan_text THEN kNan ELSE NA) ELSE cell

\* [p.strip() for p in addr_str.split(",") if p.strip()]
Segments(addr) ==
  LET raw == SplitOn(Strip(addr), ",")
      kept == SelectSeq(raw, LAMBDA p : Strip(p) # <<>>)
  IN  [i \in 1..Len(kept) |-> Strip(kept[i])]

\* the first run of two capitals of s, "" without one
FirstCapitals(s) ==
  LET at == {i \in 1..(Len(s) - 1) : s[i] \in Upper /\ s[i + 1] \in Upper}
  IN  IF at = {} THEN <<>>
      ELSE LET i == CHOOSE a \in at : \A b \in at : a <= b
           IN  SubSeq(s, i, i + 1)

\* the split with the state cut down to two capitals and the ZIP searched in
\* the third and fourth segment together
split_address_StateZip(addr) ==
  LET parts == Segments(addr)
      third == IF Len(parts) > 2 THEN parts[3] ELSE <<>>
      fourth == IF Len(parts) > 3 THEN parts[4] ELSE <<>>
  IN  ("Address" :> (IF Len(parts) > 0 THEN parts[1] ELSE <<>>))
      @@ ("City" :> (IF Len(parts) > 1 THEN parts[2] ELSE <<>>))
      @@ ("State" :> FirstCapitals(third))
      @@ ("Zipcode" :> FirstDigits(third \o <<" ">> \o fourth, 5))

\* split_address(addr) for an address that is not NA (the filter has
\* dropped the rows without an address)
split_address(addr) ==
  LET parts == Segments(addr)
      zip_raw == IF Len(parts) > 3 THEN parts[4] ELSE <<>>
  IN  ("Address" :> (IF Len(parts) > 0 THEN parts[1] ELSE <<>>))
      @@ ("City" :> (IF Len(parts) > 1 THEN parts[2] ELSE <<>>))
      @@ ("State" :> (IF Len(parts) > 2 THEN parts[3] ELSE <<>>))
      @@ ("Zipcode" :> FirstDigits(zip_raw, 5))

\* the filter of lines 414-418 on one row
WAKeeps(row) ==
  /\ row.status = kActive
  /\ row.addr # NA
  /\ row.type # NA
  /\ ToUpper(Strip(row.type)) = kLLC

\* the labels of the rows the filter keeps, in order
WAFiltered(rows) == SelectSeq([i \in 1..Len(rows) |-> i],
                              LAMBDA i : WAKeeps(rows[i]))

\* addr_df: the split addresses of the kept rows
WAAddrFrame(rows) ==
  LET kept == WAFiltered(rows)
  IN  [k \in 1..Len(kept) |->
         [idx |-> kept[k] - 1, cells |-> split_address(rows[kept[k]].addr)]]

\* final, before the blank rows are dropped
WAFinal(rows, added_date, nan_text) ==
  LET ad == WAAddrFrame(rows)
  IN  [k \in 1..Len(ad) |->
         [idx |-> ad[k].idx,
          cells |->
            ("Name" :> Strip(AsStr(rows[ad[k].idx + 1].name,
                                              nan_text)))
            @@ ("Address" :> Strip(AsStr(ad[k].cells["Address"],
                                              nan_text)))
            @@ ("City" :> Strip(AsStr(ad[k].cells["City"],
                                              nan_text)))
            @@ ("State" :> Strip(AsStr(ad[k].cells["State"],
                                              nan_text)))
            @@ ("Zipcode" :> Strip(AsStr(ad[k].cells["Zipcode"],
                                              nan_text)))
            @@ ("Filing Date" :> Strip(AsStr(added_date,
                                              nan_text)))
            @@ ("Document Number" :> Strip(AsStr(rows[ad[k].idx + 1].ubi,
                                              nan_text)))]]

\* The exceptions of the function.  A "Business Type" column without one
\* text is a float column, on which .str raises AttributeError (line 417).
\* When the filter keeps no row, apply returns an empty Series, not a
\* frame: concat adds no "Address" column and filtered["Address"] raises
\* KeyError (line 434).
WARaises(rows) ==
  IF rows # <<>> /\ \A i \in 1..Len(rows) : rows[i].type = NA
    THEN "AttributeError"
  ELSE IF WAFiltered(rows) = <<>> THEN "KeyError"
  ELSE "none"

process_washington_streamlit(rows, added_date, nan_text) ==
  IF WARaises(rows) # "none" THEN <<>>
  ELSE DropBlank(WAFinal(rows, added_date, nan_text))

(***************************************************************************)
(* The Washington files of the model.                                      *)
(***************************************************************************)
\* most rows of a Washington file
MaxWARows == 2

kInactive == <<"I", "n", "a", "c", "t", "i", "v", "e">>
kLLCPadded == <<" ", "w", "a", " ", "l", "i", "m", "i", "t", "e", "d", " ",
    "l", "i", "a", "b", "i", "l", "i", "t", "y", " ", "c", "o", "m", "p",
    "a", "n", "y", " ">>
kCorp == <<"W", "A", " ", "P", "R", "O", "F", "I", "T", " ", "C", "O", "R",
    "P", "O", "R", "A", "T", "I", "O", "N">>
kAcme == <<"A", "c", "m", "e", " ", "L", "L", "C">>
kUbi == <<"6", "0", "4", " ", "1", "2", "3", " ", "4", "5", "6">>
kAddrThree == <<"1", "2", "3", " ", "M", "a", "i", "n", " ", "S", "t", ",",
    " ", "S", "e", "a", "t", "t", "l", "e", ",", " ", "W", "A", " ", "9",
    "8", "1", "0", "1">>
kAddrFour == <<"1", "2", "3", " ", "M", "a", "i", "n", " ", "S", "t", ",",
    " ", "S", "e", "a", "t", "t", "l", "e", ",", " ", "W", "A", ",", " ",
    "9", "8", "1", "0", "1">>
kAddrFive == <<"1", "2", "3", " ", "M", "a", "i", "n", " ", "S", "t", ",",
    ",", " ", "S", "e", "a", "t", "t", "l", "e", " ", ",", " ", "W", "A",
    ",", " ", "9", "8", "1", "0", "1", "-", "1", "2", "3", "4", ",", " ",
    "U", "S", "A">>
kAddrNoZip == <<"1", "2", "3", " ", "M", "a", "i", "n", " ", "S", "t", ",",
    " ", "S", "e", "a", "t", "t", "l", "e", ",", " ", "W", "A", ",", " ",
    "9", "8", "1", "0">>
kAddrName == <<"1", "2", "3", " ", "M", "a", "i", "n", " ", "S", "t", ",",
    " ", "S", "e", "a", "t", "t", "l", "e", ",", " ", "W", "a", "s", "h",
    "i", "n", "g", "t", "o", "n", ",", " ", "P", "O", " ", "9", "8", "1",
    "0", "1">>
kStamp == <<"0", "1", "/", "0", "5", "/", "2", "0", "2", "4">>
kStampIso == <<"2", "0", "2", "4", "-", "0", "1", "-", "0", "5">>

WAGood == [name |-> kAcme, status |-> kActive, addr |-> kAddrFour,
           type |-> kLLC, ubi |-> kUbi]

WARowSet ==
  { WAGood,
    [WAGood EXCEPT !.addr = kAddrThree],
    [WAGood EXCEPT !.addr = kAddrFive],
    [WAGood EXCEPT !.addr = kAddrNoZip],
    [WAGood EXCEPT !.addr = kAddrName],
    [WAGood EXCEPT !.addr = NA],
    [WAGood EXCEPT !.name = NA],
    [WAGood EXCEPT !.ubi = NA],
    [WAGood EXCEPT !.status = kInactive],
    [WAGood EXCEPT !.type = kLLCPadded],
    [WAGood EXCEPT !.type = kCorp],
    [WAGood EXCEPT !.type = NA] }

WAFiles == UNION {[1..n -> WARowSet] : n \in 0..MaxWARows}

\* the stamp: the page calls the function with a stamp that is not empty
WAStamps == {kStamp, kStampIso, <<" ">>}

InitWA ==
  /\ wa \in [rows : WAFiles, added_date : WAStamps, nan_text : BOOLEAN,
             addr_df : {<<>>}, out : {<<>>}, raised : {"none"},
             pc : {"call"}]
  /\ sel = Idle /\ fl = Idle /\ wv = Idle /\ cmb = Idle
  /\ app = Idle

ProcessWashington ==
  /\ wa.pc = "call"
  /\ wa' = [wa EXCEPT
              !.addr_df = IF WARaises(wa.rows) = "AttributeError" THEN <<>>
                          ELSE WAAddrFrame(wa.rows),
              !.out = process_washington_streamlit(wa.rows, wa.added_date,
                                                   wa.nan_text),
              !.raised = WARaises(wa.rows),
              !.pc = "done"]
  /\ UNCHANGED <<sel, fl, wv, cmb, app>>

NextWA == ProcessWashington

SpecWA == InitWA /\ [][NextWA]_vars

(***************************************************************************)
(* process_wv_streamlit(file).  The file is the frame pd.read_csv makes of *)
(* it, as for Washington; a ZipCode cell is the text astype(str) makes of  *)
(* the value read.  The effective dates of the model are written           *)
(* month/day/year, which pd.to_datetime reads month first, or are no date. *)
(***************************************************************************)
\* pd.to_datetime(cell, errors="coerce")
ToDatetime(cell) == ParseMDY(cell)

\* .dt.strftime("%m/%d/%Y"): NaT gives NaN
WVFilingDate(eff) ==
  IF ToDatetime(eff).ok THEN FormatMDY(ToDatetime(eff)) ELSE NA

\* street1.where(street2 == "", street1 + ", " + street2), on the columns
\* with NaN filled by "" and stripped
WVAddress(row) ==
  LET street1 == Strip(IF row.street1 = NA THEN <<>> ELSE row.street1)
      street2 == Strip(IF row.street2 = NA THEN <<>> ELSE row.street2)
  IN  IF street2 = <<>> THEN street1
      ELSE street1 \o <<",", " ">> \o street2

\* df["ZipCode"].astype(str).str.extract(r"(\d{5})"): the first run of five
\* digits, NaN without one
WVZip5(zip, nan_text) ==
  IF FirstDigits(AsStr(zip, nan_text), 5) = <<>> THEN NA
  ELSE FirstDigits(AsStr(zip, nan_text), 5)

\* the mask of lines 470-477 on one row
WVKeeps(row) ==
  /\ row.org # NA
  /\ row.street1 # NA
  /\ row.city # NA
  /\ row.state # NA
  /\ row.zip # NA
  /\ row.term = NA

WVFiltered(rows) == SelectSeq([i \in 1..Len(rows) |-> i],
                              LAMBDA i : WVKeeps(rows[i]))

\* final, before the blank rows are dropped
WVFinal(rows, nan_text) ==
  LET kept == WVFiltered(rows)
  IN  [k \in 1..Len(kept) |->
        LET row == rows[kept[k]]
        IN  [idx |-> kept[k] - 1,
             cells |->
               ("Name" :> Strip(AsStr(row.org,
                                                 nan_text)))
               @@ ("Address" :> Strip(AsStr(WVAddress(row),
                                                 nan_text)))
               @@ ("City" :> Strip(AsStr(row.city,
                                                 nan_text)))
               @@ ("State" :> Strip(AsStr(row.state,
                                                 nan_text)))
               @@ ("Zipcode" :> Strip(AsStr(WVZip5(row.zip, nan_text),
                                                 nan_text)))
               @@ ("Filing Date" :> Strip(AsStr(WVFilingDate(row.eff),
                                                 nan_text)))
               @@ ("Document Number" :> Strip(AsStr(row.id,
                                                 nan_text)))]]

process_wv_streamlit(rows, nan_text) == DropBlank(WVFinal(rows, nan_text))

(***************************************************************************)
(* The West Virginia files of the model.                                   *)
(***************************************************************************)
\* most rows of a West Virginia file
MaxWVRows == 2

kOrg == <<"E", "l", "m", " ", "C", "o">>
kStreet1 == <<"1", " ", "E", "l", "m", " ", "S", "t">>
kStreet2 == <<"A", "p", "t", " ", "2">>
kCity == <<"C", "h", "a", "r", "l", "e", "s", "t", "o", "n">>
kWV == <<"W", "V">>
kZip == <<"2", "5", "3", "0", "1">>
kZipPlus4 == <<"2", "5", "3", "0", "1", "-", "1", "2", "3", "4">>
kZipShort == <<"1", "2", "3", "4">>
kEffective == <<"1", "/", "5", "/", "2", "0", "2", "4">>
kEffectiveBad == <<"1", "3", "/", "4", "5", "/", "2", "0", "2", "4">>
kUnknown == <<"u", "n", "k", "n", "o", "w", "n">>
kTerminated == <<"3", "/", "1", "/", "2", "0", "2", "4">>
kId == <<"W", "V", "-", "1", "0", "0", "1">>

WVGood == [org |-> kOrg, street1 |-> kStreet1, street2 |-> NA,
           city |-> kCity, state |-> kWV, zip |-> kZip,
           eff |-> kEffective, term |-> NA, id |-> kId]

WVRowSet ==
  { WVGood,
    [WVGood EXCEPT !.street2 = kStreet2],
    [WVGood EXCEPT !.zip = kZipPlus4],
    [WVGood EXCEPT !.zip = kZipShort],
    [WVGood EXCEPT !.zip = NA],
    [WVGood EXCEPT !.eff = kUnknown],
    [WVGood EXCEPT !.eff = kEffectiveBad],
    [WVGood EXCEPT !.eff = NA],
    [WVGood EXCEPT !.term = kTerminated],
    [WVGood EXCEPT !.id = NA],
    [WVGood EXCEPT !.org = NA],
    [WVGood EXCEPT !.city = <<" ">>] }

WVFiles == UNION {[1..n -> WVRowSet] : n \in 0..MaxWVRows}

InitWV ==
  /\ wv \in [rows : WVFiles, nan_text : BOOLEAN, out : {<<>>},
             pc : {"call"}]
  /\ sel = Idle /\ fl = Idle /\ wa = Idle /\ cmb = Idle
  /\ app = Idle

ProcessWV ==
  /\ wv.pc = "call"
  /\ wv' = [wv EXCEPT !.out = process_wv_streamlit(wv.rows, wv.nan_text),
                       !.pc = "done"]
  /\ UNCHANGED <<sel, fl, wa, cmb, app>>

NextWV == ProcessWV

SpecWV == InitWV /\ [][NextWV]_vars

(***************************************************************************)
(* Properties of the transformers.                                         *)
(***************************************************************************)
kWA == <<"W", "A">>
kWAZip == <<"W", "A", " ", "9", "8", "1", "0", "1">>
kZip98101 == <<"9", "8", "1", "0", "1">>
kSeattle == <<"S", "e", "a", "t", "t", "l", "e">>
kMainSt == <<"1", "2", "3", " ", "M", "a", "i", "n", " ", "S", "t">>

\* every cell of the record holds more than whitespace
NoBlankCell(r) == \A col \in DOMAIN r.cells : Strip(r.cells[col]) # <<>>

\* no two records of the frame come from the same raw row
OnePerRow(out) ==
  \A j \in 1..Len(out) : \A k \in 1..Len(out) :
    out[j].idx = out[k].idx => j = k

\* C5: each raw row yields at most one record, and a record is emitted only
\* if all its fields are present and not empty: a raw row whose Business
\* Name or UBI# (Washington), Organization Name, Id or ZIP (West Virginia)
\* is missing is dropped.
C5_OnlyCompleteRows ==
  /\ fl.pc = "done" =>
       \A k \in 1..Len(fl.out) : NoBlankCell(fl.out[k])
  /\ wa.pc = "done" =>
       /\ OnePerRow(wa.out)
       /\ \A k \in 1..Len(wa.out) :
            /\ NoBlankCell(wa.out[k])
            /\ wa.rows[wa.out[k].idx + 1].name # NA
            /\ wa.rows[wa.out[k].idx + 1].ubi # NA
  /\ wv.pc = "done" =>
       /\ OnePerRow(wv.out)
       /\ \A k \in 1..Len(wv.out) :
            /\ NoBlankCell(wv.out[k])
            /\ wv.rows[wv.out[k].idx + 1].org # NA
            /\ wv.rows[wv.out[k].idx + 1].id # NA
            /\ wv.rows[wv.out[k].idx + 1].zip # NA

\* exactly five digits
IsZip5(s) == Len(s) = 5 /\ \A i \in 1..5 : s[i] \in Digit

\* two digits, "/", two digits, "/", four digits
IsDateShape(s) ==
  /\ Len(s) = 10
  /\ s[3] = "/" /\ s[6] = "/"
  /\ \A i \in {1, 2, 4, 5, 7, 8, 9, 10} : s[i] \in Digit

StdShape(out) ==
  \A k \in 1..Len(out) :
    /\ IsZip5(out[k].cells["Zipcode"])
    /\ IsDateShape(out[k].cells["Filing Date"])

\* C6: in every standard record of the three transformers the Zipcode is
\* exactly five digits and the Filing Date reads MM/DD/YYYY.
C6_ZipAndDateShape ==
  /\ (fl.pc = "done" /\ fl.mailing_only) => StdShape(fl.out)
  /\ wa.pc = "done" => StdShape(wa.out)
  /\ wv.pc = "done" => StdShape(wv.out)

\* the row passes the status/type filter and lacks no other field
WAComplete(row) ==
  /\ row.status = kActive
  /\ row.type # NA /\ ToUpper(Strip(row.type)) = kLLC
  /\ row.addr # NA /\ row.name # NA /\ row.ubi # NA

\* C7 as claimed, on its example: a row with the address
\* "123 Main St, Seattle, WA 98101" that passes the filter yields a record
\* with Address "123 Main St", City "Seattle", State "WA", Zipcode "98101".
C7_ExampleAsClaimed ==
  (wa.pc = "done" /\ Strip(wa.added_date) # <<>>) =>
    \A i \in 1..Len(wa.rows) :
      (WAComplete(wa.rows[i]) /\ wa.rows[i].addr = kAddrThree) =>
        \E k \in 1..Len(wa.out) :
          /\ wa.out[k].idx = i - 1
          /\ wa.out[k].cells["Address"] = kMainSt
          /\ wa.out[k].cells["City"] = kSeattle
          /\ wa.out[k].cells["State"] = kWA
          /\ wa.out[k].cells["Zipcode"] = kZip98101

\* the n-th segment, "" when there are fewer
SegOr(segs, n) == IF Len(segs) >= n THEN segs[n] ELSE <<>>

\* zip is the first run of five digits of s, or "" when s has none
IsFirstZip(s, zip) ==
  IF \A i \in 1..Len(s) : ~DigitsAt(s, i, 5) THEN zip = <<>>
  ELSE \E i \in 1..Len(s) :
         /\ DigitsAt(s, i, 5)
         /\ \A j \in 1..(i - 1) : ~DigitsAt(s, j, 5)
         /\ zip = SubSeq(s, i, i + 4)

\* C7 as the code has it: the address of a row that passes the filter is
\* split on commas, the segments trimmed and the empty ones discarded;
\* Address is segment 0, City segment 1, State the whole of segment 2 and
\* Zipcode the first five-digit run of segment 3 alone.  A row is emitted
\* only with four such fields that are not empty, and with them in its
\* record: "123 Main St, Seattle, WA 98101" gives State "WA 98101" and no
\* Zipcode and is dropped; "123 Main St, Seattle, WA, 98101" gives "WA" and
\* "98101" and, in a row that lacks no field, is emitted.
C7_SegmentSplit ==
  (wa.pc = "done" /\ wa.raised = "none") =>
    /\ \A k \in 1..Len(wa.addr_df) :
         LET row == wa.rows[wa.addr_df[k].idx + 1]
             cells == wa.addr_df[k].cells
             segs == Segments(row.addr)
         IN  /\ cells["Address"] = SegOr(segs, 1)
             /\ cells["City"] = SegOr(segs, 2)
             /\ cells["State"] = SegOr(segs, 3)
             /\ IsFirstZip(SegOr(segs, 4), cells["Zipcode"])
             /\ row.addr = kAddrThree =>
                  /\ cells["State"] = kWAZip
                  /\ cells["Zipcode"] = <<>>
                  /\ \A j \in 1..Len(wa.out) :
                       wa.out[j].idx # wa.addr_df[k].idx
             /\ row.addr = kAddrFour =>
                  /\ cells["State"] = kWA
                  /\ cells["Zipcode"] = kZip98101
                  /\ (WAComplete(row) /\ Strip(wa.added_date) # <<>>) =>
                       \E j \in 1..Len(wa.out) :
                         wa.out[j].idx = wa.addr_df[k].idx
    /\ \A j \in 1..Len(wa.out) :
         \E k \in 1..Len(wa.addr_df) :
           /\ wa.addr_df[k].idx = wa.out[j].idx
           /\ \A col \in {"Address", "City", "State", "Zipcode"} :
                /\ wa.out[j].cells[col] = wa.addr_df[k].cells[col]
                /\ wa.out[j].cells[col] # <<>>

\* a row with the three-segment address has passed the filter and has been
\* dropped, beside a row that has been emitted
C7_Witness ==
  /\ wa.pc = "done"
  /\ Len(wa.rows) = 2
  /\ WAComplete(wa.rows[1]) /\ wa.rows[1].addr = kAddrThree
  /\ WAComplete(wa.rows[2]) /\ wa.rows[2].addr = kAddrFour
  /\ Len(wa.out) = 1
  /\ wa.out[1].idx = 1

\* the cell is a date written month/day/year
IsParsedDate(cell) == cell # NA /\ ParseMDY(cell).ok

\* C8: a West Virginia row whose Effective Date does not parse is dropped:
\* every emitted record stems from a row with a parsed Effective Date and
\* carries its MM/DD/YYYY rendering.
C8_UnparsedDropped ==
  wv.pc = "done" =>
    \A k \in 1..Len(wv.out) :
      LET eff == wv.rows[wv.out[k].idx + 1].eff
      IN  /\ IsParsedDate(eff)
          /\ ParseMDY(wv.out[k].cells["Filing Date"]) = ParseMDY(eff)

(***************************************************************************)
(* combiner_page().  An uploaded file has a name, the columns of its       *)
(* sheet and its rows; a row is told apart by the position of its file in  *)
(* the upload and its own position in the file.  widgets[i] is the value   *)
(* of the text input with the key rows_<i - 1>.                            *)
(***************************************************************************)
required_cols == {"Name", "Address", "City", "State", "Zipcode",
                  "Filing Date", "Document Number"}

kALL == <<"A", "L", "L">>
kFirst0 == <<"f", "i", "r", "s", "t", " ", "0">>
kLast1 == <<"l", "a", "s", "t", " ", "1">>

\* missing = [c for c in required_cols if c not in df_preview.columns]
Missing(file) == required_cols \ file.cols

\* pd.read_excel(file): the rows of the i-th uploaded file
ReadExcel(files, i) == [j \in 1..files[i].nrows |-> [file |-> i, row |-> j]]

\* valid_files after the loop of lines 521-537: the names of the files
\* that miss no column
valid_files(files) ==
  {files[i].name : i \in {k \in 1..Len(files) : Missing(files[k]) = {}}}

\* the files for which "Missing columns ... this file will be skipped" is
\* shown
Skipped(files) == {i \in 1..Len(files) : Missing(files[i]) # {}}

\* selections after the loop: under each name the value of the input of the
\* last file of that name that misses no column
selections(files, widgets) ==
  [n \in valid_files(files) |->
     widgets[CHOOSE i \in 1..Len(files) :
               /\ files[i].name = n /\ Missing(files[i]) = {}
               /\ \A k \in (i + 1)..Len(files) :
                    ~(files[k].name = n /\ Missing(files[k]) = {})]]

\* all_frames after the loop of lines 542-550 over the first n files
RECURSIVE all_frames(_, _, _)
all_frames(files, widgets, n) ==
  IF n = 0 THEN <<>>
  ELSE IF files[n].name \notin valid_files(files)
    THEN all_frames(files, widgets, n - 1)
  ELSE all_frames(files, widgets, n - 1)
         \o <<select_rows(ReadExcel(files, n),
                          selections(files, widgets)[files[n].name])>>

\* pd.concat(frames, ignore_index=True)
RECURSIVE Concat(_)
Concat(frames) ==
  IF frames = <<>> THEN <<>>
  ELSE Concat(SubSeq(frames, 1, Len(frames) - 1)) \o frames[Len(frames)]

\* the outcome told by the rows left, not by the frames collected
CombineOutcome_ByRows(frames) ==
  IF Concat(frames) = <<>> THEN "error" ELSE "success"

\* lines 552-557: "No valid data to combine" or "Combined rows"
CombineOutcome(frames) == IF frames = <<>> THEN "error" ELSE "success"

(***************************************************************************)
(* The uploads of the model.                                               *)
(***************************************************************************)
\* most files of an upload
MaxFiles == 2
\* most rows of an uploaded file
MaxRows == 2

FileNames == {"a.xlsx", "b.xlsx"}

FileKinds ==
  [name : FileNames,
   cols : {required_cols, required_cols \ {"Document Number"}},
   nrows : 0..MaxRows]

CmbExprs == {kALL, kFirst0, kLast1}

\* the page before a file is uploaded: it returns at line 513
InitCmb ==
  /\ cmb = [files |-> <<>>, widgets |-> <<>>, skipped |-> {},
            outcome |-> "none", combined |-> <<>>, download |-> FALSE]
  /\ sel = Idle /\ fl = Idle /\ wa = Idle /\ wv = Idle
  /\ app = Idle

\* the user uploads files; the page shows each file with its input at the
\* default "ALL", or the message that the file is skipped
Upload ==
  /\ cmb.files = <<>>
  /\ \E n \in 1..MaxFiles : \E fs \in [1..n -> FileKinds] :
       cmb' = [files |-> fs, widgets |-> [i \in 1..n |-> kALL],
               skipped |-> Skipped(fs), outcome |-> "none",
               combined |-> <<>>, download |-> FALSE]
  /\ UNCHANGED <<sel, fl, wa, wv, app>>

\* the user edits the input of a file that misses no column; the page runs
\* again without the button pressed
EnterSelection ==
  /\ \E i \in 1..Len(cmb.files) : \E e \in CmbExprs :
       /\ Missing(cmb.files[i]) = {}
       /\ cmb.widgets[i] # e
       /\ cmb' = [cmb EXCEPT !.widgets[i] = e,
                             !.skipped = Skipped(cmb.files),
                             !.outcome = "none", !.combined = <<>>,
                             !.download = FALSE]
  /\ UNCHANGED <<sel, fl, wa, wv, app>>

\* the user presses "Combine Selected Rows"
Combine ==
  /\ cmb.files # <<>>
  /\ LET frames == all_frames(cmb.files, cmb.widgets, Len(cmb.files))
     IN  cmb' = [cmb EXCEPT
                   !.skipped = Skipped(cmb.files),
                   !.outcome = CombineOutcome(frames),
                   !.combined = IF CombineOutcome(frames) = "error" THEN <<>>
                                ELSE Concat(frames),
                   !.download = (CombineOutcome(frames) = "success")]
  /\ UNCHANGED <<sel, fl, wa, wv, app>>

NextCmb == Upload \/ EnterSelection \/ Combine

SpecCmb == InitCmb /\ [][NextCmb]_vars

(***************************************************************************)
(* Properties of the combiner.                                             *)
(***************************************************************************)
\* the files of the upload that miss no required column
Retained == {i \in 1..Len(cmb.files) : required_cols \subseteq cmb.files[i].cols}

\* C9: a set that misses a required column is excluded entirely: no row of
\* it is in the combined output, its exclusion is reported, and the sets
\* that miss no column are combined.
C9_InvalidExcluded ==
  cmb.outcome # "none" =>
    /\ \A k \in 1..Len(cmb.combined) : cmb.combined[k].file \in Retained
    /\ cmb.skipped = (1..Len(cmb.files)) \ Retained
    /\ Retained # {} => cmb.outcome = "success"

\* C10: pressing Combine with no set retained ends in the no-valid-data
\* error without a combined output; with a set retained it ends in success
\* with a combined output, also when the selections leave no row.
C10_OutcomeDistinct ==
  cmb.outcome # "none" =>
    /\ Retained = {} =>
         cmb.outcome = "error" /\ ~cmb.download /\ cmb.combined = <<>>
    /\ Retained # {} => cmb.outcome = "success" /\ cmb.download

\* a retained set with rows has been combined into an output without rows
C10_Witness ==
  /\ cmb.outcome = "success"
  /\ cmb.download
  /\ cmb.combined = <<>>
  /\ \E i \in Retained : cmb.files[i].nrows > 0 /\ cmb.widgets[i] = kFirst0

\* the concatenation, in upload order, of the retained sets among the
\* first n, each sliced by the expression entered for it
RECURSIVE OwnSlices(_)
OwnSlices(n) ==
  IF n = 0 THEN <<>>
  ELSE IF n \notin Retained THEN OwnSlices(n - 1)
  ELSE OwnSlices(n - 1)
         \o select_rows(ReadExcel(cmb.files, n), cmb.widgets[n])

\* C11: the combined output is the concatenation, in upload order, of the
\* retained sets, each sliced by the selection expression entered for that
\* same set, also when two retained sets carry the same file name; its row
\* count is the sum of the sizes of the slices.
C11_OwnSelection ==
  cmb.outcome = "success" =>
    /\ cmb.combined = OwnSlices(Len(cmb.files))
    /\ Len(cmb.combined) = Len(OwnSlices(Len(cmb.files)))

(***************************************************************************)
(* Authentication: the script of lines 637-654 with login_page,            *)
(* signup_page, logout, check_login and create_user.  app holds            *)
(* st.session_state (auth, user), the rows of users_db.csv as the file     *)
(* holds them (text), the current UTC date, and what the latest run of     *)
(* the script did.  A run is one execution of the script from the top,     *)
(* started by one interaction of the user.                                 *)
(***************************************************************************)
PROTECTED_KEY == <<"B", "O", "I", "2", "0", "2", "5", "V", "I", "P">>

\* the days an account is valid from its creation
ValidDays == 30

\* st.session_state["user"] = None
None == <<"<None>">>

\* hash_password: the SHA-256 digest in hexadecimal.  The digest is not
\* computed: it is written as a text that names the password, distinct for
\* distinct passwords and never a numeral.
hash_password(password) == <<"#">> \o password

\* the day after t
NextDay(t) ==
  IF t.d < DaysIn(t.m, t.y) THEN [t EXCEPT !.d = t.d + 1]
  ELSE IF t.m < 12 THEN [t EXCEPT !.m = t.m + 1, !.d = 1]
  ELSE [ok |-> TRUE, y |-> t.y + 1, m |-> 1, d |-> 1]

\* t + timedelta(days=n)
RECURSIVE AddDays(_, _)
AddDays(t, n) == IF n = 0 THEN t ELSE AddDays(NextDay(t), n - 1)

\* date.isoformat()
IsoFormat(t) == Pad4(t.y) \o <<"-">> \o Pad2(t.m) \o <<"-">> \o Pad2(t.d)

\* datetime.strptime(s, "%Y-%m-%d"): four digits of a year from 1 on, one
\* or two digits of a month, one or two of a day of that month; ok = FALSE
\* is the ValueError
ParseYMD(s) ==
  LET p == SplitOn(s, "-")
  IN  IF Len(p) # 3 THEN NaT
      ELSE IF ~(AllDigits(p[1]) /\ Len(p[1]) = 4 /\ DigitsVal(p[1]) >= 1)
        THEN NaT
      ELSE IF ~(AllDigits(p[2]) /\ Len(p[2]) <= 2 /\ DigitsVal(p[2]) \in 1..12)
        THEN NaT
      ELSE IF ~(AllDigits(p[3]) /\ Len(p[3]) <= 2 /\ DigitsVal(p[3]) \in 1..31)
        THEN NaT
      ELSE IF DigitsVal(p[3]) > DaysIn(DigitsVal(p[2]), DigitsVal(p[1]))
        THEN NaT
      ELSE [ok |-> TRUE, y |-> DigitsVal(p[1]), m |-> DigitsVal(p[2]),
            d |-> DigitsVal(p[3])]

\* a < b on dates
DateLT(a, b) ==
  \/ a.y < b.y
  \/ a.y = b.y /\ a.m < b.m
  \/ a.y = b.y /\ a.m = b.m /\ a.d < b.d

\* load_users(): pd.read_csv gives the username column the type int64 when
\* every username of the file is a numeral, and leaves it text otherwise;
\* an integer n is written "int" followed by its decimal digits, which no
\* text equals.  The digests and the expiry texts of the model are never
\* numerals.  No file is the file without a row.
load_users(file) ==
  IF file # <<>> /\ \A i \in 1..Len(file) : AllDigits(file[i].username)
    THEN [i \in 1..Len(file) |->
            [file[i] EXCEPT !.username = <<"int">> \o Dec(DigitsVal(@))]]
    ELSE file

\* save_users(df): to_csv writes an integer in decimal
save_users(df) ==
  [i \in 1..Len(df) |->
     IF df[i].username[1] = "int"
       THEN [df[i] EXCEPT !.username = Tail(@)]
       ELSE df[i]]

\* df[df["username"] == username]: the positions of the rows of that name
UserRows(df, username) ==
  SelectSeq([i \in 1..Len(df) |-> i], LAMBDA i : df[i].username = username)

\* create_user(username, password) on the file, at the date today: the
\* result and the file afterwards
create_user(file, today, username, password) ==
  LET df == load_users(file)
  IN  IF UserRows(df, username) # <<>>
        THEN [ok |-> FALSE, file |-> file]
        ELSE [ok |-> TRUE,
              file |-> save_users(Append(df,
                         [username |-> username,
                          password_hash |-> hash_password(password),
                          expiry |-> IsoFormat(AddDays(today, ValidDays))]))]

\* the login that does not look at the expiry date
check_login_NoExpiry(file, today, username, password) ==
  LET df == load_users(file)
      row == UserRows(df, username)
  IN  IF row = <<>> THEN [ok |-> FALSE, msg |-> "User not found."]
      ELSE IF df[row[1]].password_hash # hash_password(password)
        THEN [ok |-> FALSE, msg |-> "Incorrect password."]
      ELSE [ok |-> TRUE, msg |-> "Welcome back!"]

\* check_login(username, password) on the file, at the date today
check_login(file, today, username, password) ==
  LET df == load_users(file)
      row == UserRows(df, username)
      expiry == ParseYMD(df[row[1]].expiry)
  IN  IF row = <<>> THEN [ok |-> FALSE, msg |-> "User not found."]
      ELSE IF df[row[1]].password_hash # hash_password(password)
        THEN [ok |-> FALSE, msg |-> "Incorrect password."]
      ELSE IF ~expiry.ok
        THEN [ok |-> FALSE, msg |-> "Invalid expiry data."]
      ELSE IF DateLT(expiry, today)
        THEN [ok |-> FALSE, msg |-> "Account expired."]
      ELSE [ok |-> TRUE, msg |-> "Welcome back!"]

(***************************************************************************)
(* The sessions of the model.                                              *)
(***************************************************************************)
\* most rows of users_db.csv when the session starts
MaxUsers == 1
\* most rows of users_db.csv at which a sign-up is still modelled
MaxDb == 2
\* most days that pass during the session
MaxTicks == 1

kAnn == <<"a", "n", "n">>
k007 == <<"0", "0", "7">>
kPw == <<"p", "w">>
kPw2 == <<"x">>
kWrongKey == <<"k">>

\* the UTC date when the session starts
Day0 == [ok |-> TRUE, y |-> 2024, m |-> 12, d |-> 31]

kExpPast == <<"2", "0", "2", "4", "-", "1", "2", "-", "3", "0">>
kExpDay0 == <<"2", "0", "2", "4", "-", "1", "2", "-", "3", "1">>
kExpShort == <<"2", "0", "2", "5", "-", "1", "-", "1">>
kExpBad == <<"n", "e", "v", "e", "r">>

UserNames == {kAnn, k007}
Passwords == {kPw, kPw2}

UserRowSet ==
  [username : UserNames,
   password_hash : {hash_password(p) : p \in Passwords},
   expiry : {kExpPast, kExpDay0, kExpShort, kExpBad}]

UserFiles == UNION {[1..n -> UserRowSet] : n \in 0..MaxUsers}

\* what a run did: the page it showed, the login it tried and its result,
\* and whether it went on to state_page() and combiner_page()
Run(kind, username, password, ok, pages) ==
  [kind |-> kind, username |-> username, password |-> password, ok |-> ok,
   pages |-> pages]

\* a new session: no run yet, st.session_state empty, which the first run
\* fills with auth = False and user = None (lines 637-640)
InitAuth ==
  /\ app \in [auth : {FALSE}, user : {None}, file : UserFiles,
              today : {Day0}, ticks : {0},
              run : {Run("none", <<>>, <<>>, FALSE, FALSE)}]
  /\ sel = Idle /\ fl = Idle /\ wa = Idle /\ wv = Idle /\ cmb = Idle

\* a run with auth False and "Login" chosen, the button not pressed, or
\* pressed without a username or a password
LoginFormRun ==
  /\ ~app.auth
  /\ \E username \in UserNames \cup {<<>>} :
     \E password \in Passwords \cup {<<>>} :
       /\ username = <<>> \/ password = <<>>
       /\ app' = [app EXCEPT
                    !.run = Run("form", username, password, FALSE, FALSE)]
  /\ UNCHANGED <<sel, fl, wa, wv, cmb>>

\* a run with auth False, "Login" chosen and the button pressed with a
\* username and a password: login_page() calls check_login, then st.stop()
LoginRun ==
  /\ ~app.auth
  /\ \E username \in UserNames : \E password \in Passwords :
       LET r == check_login(app.file, app.today, username, password)
       IN  app' = [app EXCEPT
                     !.auth = IF r.ok THEN TRUE ELSE @,
                     !.user = IF r.ok THEN username ELSE @,
                     !.run = Run("login", username, password, r.ok, FALSE)]
  /\ UNCHANGED <<sel, fl, wa, wv, cmb>>

\* a run with auth False, "Sign Up" chosen and "Create Account" pressed:
\* signup_page(), then st.stop()
SignupRun ==
  /\ ~app.auth
  /\ Len(app.file) < MaxDb
  /\ \E username \in UserNames \cup {<<>>} :
     \E password \in Passwords \cup {<<>>} :
     \E confirm \in {password, kPw} :
     \E key \in {PROTECTED_KEY, kWrongKey, <<>>} :
       LET filled == username # <<>> /\ password # <<>> /\ confirm # <<>>
                       /\ key # <<>>
           r == create_user(app.file, app.today, username, password)
           created == filled /\ password = confirm /\ key = PROTECTED_KEY
                        /\ r.ok
       IN  app' = [app EXCEPT
                     !.file = IF created THEN r.file ELSE @,
                     !.run = Run("signup", username, <<>>, created, FALSE)]
  /\ UNCHANGED <<sel, fl, wa, wv, cmb>>

\* a run with auth True and "Logout" pressed: logout(), then st.stop()
LogoutRun ==
  /\ app.auth
  /\ app' = [app EXCEPT !.auth = FALSE, !.user = None,
                        !.run = Run("logout", <<>>, <<>>, FALSE, FALSE)]
  /\ UNCHANGED <<sel, fl, wa, wv, cmb>>

\* a run with auth True and "Logout" not pressed: the tabs are drawn,
\* state_page() and combiner_page() are executed
PagesRun ==
  /\ app.auth
  /\ app' = [app EXCEPT !.run = Run("pages", <<>>, <<>>, FALSE, TRUE)]
  /\ UNCHANGED <<sel, fl, wa, wv, cmb>>

\* midnight UTC passes between two runs
Tick ==
  /\ app.ticks < MaxTicks
  /\ app' = [app EXCEPT !.today = NextDay(@), !.ticks = @ + 1]
  /\ UNCHANGED <<sel, fl, wa, wv, cmb>>

NextAuth ==
  \/ LoginFormRun \/ LoginRun \/ SignupRun \/ LogoutRun \/ PagesRun
  \/ Tick

SpecAuth == InitAuth /\ [][NextAuth]_vars

(***************************************************************************)
(* Properties of the authentication.                                       *)
(***************************************************************************)
\* the file holds a row of that username with the digest of that password
\* and an expiry date not earlier than today
HasValidAccount(file, today, username, password) ==
  \E i \in 1..Len(file) :
    /\ file[i].username = username
    /\ file[i].password_hash = hash_password(password)
    /\ ParseYMD(file[i].expiry).ok
    /\ ~DateLT(ParseYMD(file[i].expiry), today)

\* C12: state_page and combiner_page are executed only in a run that
\* starts with auth = True; auth becomes True only in a run whose
\* check_login found the username, matched the digest of the password and
\* found an expiry date not earlier than the current date; after a logout
\* auth is False, and stays False until such a login.
C12_AuthGate ==
  [][ /\ (app'.run.pages /\ app'.today = app.today) => app.auth
      /\ (~app.auth /\ app'.auth) =>
           /\ app'.run.kind = "login"
           /\ app'.run.ok
           /\ app'.user = app'.run.username
           /\ HasValidAccount(app.file, app.today, app'.run.username,
                              app'.run.password)
      /\ (app.auth /\ ~app'.auth) <=>
           (app'.run.kind = "logout" /\ app'.today = app.today)
      /\ app'.run.kind = "logout" => ~app'.auth /\ app'.user = None ]_vars

\* a login on the day the account expires has set auth
C12_Witness ==
  /\ app.auth
  /\ app.run.kind = "login"
  /\ app.user = app.run.username
  /\ \E i \in 1..Len(app.file) :
       /\ app.file[i].username = app.user
       /\ ParseYMD(app.file[i].expiry) = app.today

====
